---- MODULE Spec2Model ----
(***************************************************************************)
(* The tool-augmented streaming conversation loop of the chat endpoint:    *)
(* createChatStreamWithTools / streamContinuation (POST /api/chat), the    *)
(* completion client createStreamingCompletion and the tool dispatcher     *)
(* handleToolCall.                                                         *)
(*                                                                         *)
(* One request is modelled.  JavaScript runs the handler to the next       *)
(* await without interleaving, so one action is the code between two       *)
(* suspension points: the arrival of a provider stream event, the end of   *)
(* the provider stream, a provider failure, the completion of one tool     *)
(* execution.  The client may cancel the output stream between any two of  *)
(* them.                                                                   *)
(*                                                                         *)
(* Further specifications of the same module: KeySpec, the completion      *)
(* client of the process and its API key over several requests; DateSpec,  *)
(* the natural-language date parser parseNaturalDate applied to one input  *)
(* on one day; AvailSpec, the check_availability tool handler.             *)
(***************************************************************************)
EXTENDS Integers, Sequences, FiniteSets, TLC

VARIABLES
    pc,                    \* position of the start() callback
    phase,                 \* which completion call of the iteration is in flight
    iterations,            \* part_003:105
    initialMessages,       \* the caller's sanitized messages
    conversationMessages,  \* part_003:98
    events,                \* what controller.enqueue accepted, in order
    streamState,           \* the ReadableStream: readable, closed, cancelled
    toolUses,              \* result.toolUses of the turn being processed
    idx,                   \* position of the for-of loop over toolUses
    calls,                 \* the completion calls issued to the provider
    toolExecs,             \* the handleToolCall executions started
    apiKey,                \* process.env.ANTHROPIC_API_KEY is set
    client,                \* anthropic.ts:5, the module's client was created
    requests,              \* chat requests the process has accepted
    today,                 \* dates.ts:41, the day the parser fixed as today
    clockYear,             \* the year the system clock shows when read again
    dateInput,             \* the text handed to the date parser
    dateResult,            \* what parseNaturalDate returned
    toolOutcome,           \* what the tool handler did and returned
    rateAttempts           \* part_009:734-749, the plugin's attempt counter

loopVars == <<pc, phase, iterations, initialMessages, conversationMessages,
              events, streamState, toolUses, idx, calls, toolExecs>>
keyVars == <<apiKey, client, requests>>
dateVars == <<today, clockYear, dateInput, dateResult, toolOutcome>>

pluginVars == <<rateAttempts>>

vars == <<loopVars, keyVars, dateVars, pluginVars>>

(***************************************************************************)
(* Program constants                                                       *)
(***************************************************************************)
MAX_TOOL_ITERATIONS == 5

(***************************************************************************)
(* Bounds of the model                                                     *)
(***************************************************************************)
\* tool-invocation requests in one model turn
MaxToolsPerTurn == 2
\* text deltas the provider streams during one request
MaxTextDeltas == 1
\* tool calls of one request that are not a successful search_products
MaxVariedToolCalls == 1
\* loop iterations in which the provider's turns may be other than the plain
\* turn of a runaway cycle (no text, the one tool search_products, which
\* succeeds); a failure or a turn that ends the loop may come at any time
MaxVariedIterations == 1

(***************************************************************************)
(* Data                                                                    *)
(***************************************************************************)
ToolNames == {"search_products", "check_availability", "lookup_order"}
UnknownToolName == "get_weather"
StopReasons == {"tool_use", "end_turn", "max_tokens"}

NoResult == [success |-> FALSE, error |-> "", display |-> ""]

UserMessage(t) ==
    [role |-> "user", type |-> "text", id |-> 0, name |-> "", text |-> t,
     content |-> NoResult]
AssistantMessage(t) ==
    [role |-> "assistant", type |-> "text", id |-> 0, name |-> "", text |-> t,
     content |-> NoResult]

InitialHistories ==
    { <<UserMessage("q1"), AssistantMessage("a1"), UserMessage("q2")>> }

\* the wire events of part_003; id is the tool call the event belongs to
\* (0 when none): it is not on the wire and only correlates events
TextEvent(t)          == [type |-> "text", tool |-> "", id |-> 0, text |-> t]
ToolStartEvent(tu)    == [type |-> "tool_start", tool |-> tu.name, id |-> tu.id, text |-> ""]
ToolResultEvent(tu, r) == [type |-> "tool_result", tool |-> tu.name, id |-> tu.id, text |-> r.display]
ErrorEvent(m)         == [type |-> "error", tool |-> "", id |-> 0, text |-> m]
DoneEvent             == [type |-> "done", tool |-> "", id |-> 0, text |-> ""]

(***************************************************************************)
(* Errors                                                                  *)
(***************************************************************************)
\* a thrown value: cls is what `instanceof` sees, has is the set of the
\* substrings createStreamingCompletion looks for that error.message contains
Thrown(cls, name, has) ==
    [cls |-> cls, name |-> name, has |-> has, message |-> "", code |-> ""]

AnthropicError(message, code) ==
    [cls |-> "AnthropicError", name |-> "AnthropicError", has |-> {},
     message |-> message, code |-> code]

NoError == Thrown("none", "", {})

\* what controller.enqueue throws once the stream is no longer readable
EnqueueTypeError == Thrown("Error", "TypeError", {})

\* what the provider SDK can reject a stream with
UpstreamAbort     == Thrown("Error", "AbortError", {})
UpstreamTimeout   == Thrown("Error", "Error", {"timeout"})
UpstreamRateLimit == Thrown("Error", "Error", {"rate_limit"})
UpstreamAuth      == Thrown("Error", "Error", {"invalid_api_key"})
UpstreamOther     == Thrown("Error", "Error", {})
UpstreamNonError  == Thrown("NonError", "", {})

ProviderFailures ==
    { UpstreamAbort, UpstreamTimeout, UpstreamRateLimit, UpstreamAuth,
      UpstreamOther, UpstreamNonError,
      Thrown("Error", "Error", {"timeout", "rate_limit"}) }

\* anthropic.ts:120-148, the catch block of createStreamingCompletion
MapCompletionError(error) ==
    IF error.cls \in {"Error", "AnthropicError"} /\ error.name = "AbortError"
      THEN AnthropicError("Request was cancelled", "request_cancelled")
    ELSE IF error.cls \in {"Error", "AnthropicError"} /\ "timeout" \in error.has
      THEN AnthropicError("Request timed out. Please try again.", "timeout")
    ELSE IF error.cls \in {"Error", "AnthropicError"} /\ "rate_limit" \in error.has
      THEN AnthropicError("Too many requests. Please wait a moment.", "rate_limit")
    ELSE IF error.cls \in {"Error", "AnthropicError"} /\ "invalid_api_key" \in error.has
      THEN AnthropicError("Invalid API key configuration", "invalid_api_key")
    ELSE AnthropicError("Failed to communicate with AI service", "api_error")

\* part_003:248-251
ErrorMessage(error) ==
    IF error.cls = "AnthropicError" THEN error.message
    ELSE "An unexpected error occurred"

(***************************************************************************)
(* Tool execution                                                          *)
(***************************************************************************)
ToolSuccess(display) == [success |-> TRUE, error |-> "", display |-> display]
ToolFailure(error)   == [success |-> FALSE, error |-> error, display |-> ""]

WooCodes == {"order_not_found", "api_error"}

\* tools.ts:426-436
getErrorMessage(code) ==
    CASE code = "product_not_found" -> "I couldn't find that firearm in our inventory."
      [] code = "order_not_found"   -> "I couldn't find that order. Please check your order number and email."
      [] code = "invalid_date"      -> "Those dates don't look right. Please try again."
      [] code = "rate_limit"        -> "You've made too many requests. Please wait a moment and try again."
      [] code = "connection_error"  -> "I'm having trouble connecting to our system. Please try again."
      [] code = "missing_api_key"   -> "There's a configuration issue. Please contact support."
      [] OTHER                      -> "Something went wrong. Please try again."

\* what the handler of one tool can do: return a result, or throw
Returns(r)    == [kind |-> "returns", result |-> r, code |-> ""]
ThrowsWoo(c)  == [kind |-> "throws_woo", result |-> NoResult, code |-> c]
ThrowsOther   == [kind |-> "throws_other", result |-> NoResult, code |-> ""]

\* tools.ts:154-325: handleProductSearch returns only successes with a
\* display; handleAvailabilityCheck and handleOrderLookup also return
\* failures of their own; each of them can throw from a backend call
HandlerOutcomes(toolName) ==
    IF toolName \notin ToolNames THEN { ThrowsOther }
    ELSE { Returns(ToolSuccess("display")) }
         \cup { ThrowsWoo(c) : c \in WooCodes }
         \cup { ThrowsOther }
         \cup ( IF toolName = "check_availability"
                  THEN { Returns(ToolFailure("Please specify the dates you want to rent.")) }
                ELSE IF toolName = "lookup_order"
                  THEN { Returns(ToolFailure("I need both your order number and email address to look up your order.")) }
                ELSE {} )

\* handleToolCall, letting an error that is not a WooCommerceError escape
handleToolCall_RethrowsUnexpected(toolName, outcome) ==
    IF toolName \notin ToolNames
      THEN [threw |-> FALSE, result |-> ToolFailure("Unknown tool: " \o toolName)]
    ELSE IF outcome.kind = "returns"
      THEN [threw |-> FALSE, result |-> outcome.result]
    ELSE IF outcome.kind = "throws_woo"
      THEN [threw |-> FALSE, result |-> ToolFailure(getErrorMessage(outcome.code))]
    ELSE [threw |-> TRUE, result |-> NoResult]

\* tools.ts:114-149.  threw says whether the call rejects
handleToolCall(toolName, outcome) ==
    IF toolName \notin ToolNames
      THEN [threw |-> FALSE, result |-> ToolFailure("Unknown tool: " \o toolName)]
    ELSE IF outcome.kind = "returns"
      THEN [threw |-> FALSE, result |-> outcome.result]
    ELSE IF outcome.kind = "throws_woo"
      THEN [threw |-> FALSE, result |-> ToolFailure(getErrorMessage(outcome.code))]
    ELSE [threw |-> FALSE,
          result |-> ToolFailure("Something went wrong. Please try again.")]

\* part_003:160-170
ToolUseTurn(tu) ==
    [role |-> "assistant", type |-> "tool_use", id |-> tu.id, name |-> tu.name,
     text |-> "", content |-> NoResult]

\* the tool-result turn losing the id of its tool use
ToolResultTurn_WithoutId(tu, r) ==
    [role |-> "user", type |-> "tool_result", id |-> 0, name |-> "",
     text |-> "", content |-> r]

\* part_003:172-182
ToolResultTurn(tu, r) ==
    [role |-> "user", type |-> "tool_result", id |-> tu.id, name |-> "",
     text |-> "", content |-> r]

(***************************************************************************)
(* The handler's state and its synchronous steps, as functions of state    *)
(***************************************************************************)
St ==
    [pc |-> pc, phase |-> phase, iterations |-> iterations,
     initialMessages |-> initialMessages,
     conversationMessages |-> conversationMessages,
     events |-> events, streamState |-> streamState,
     toolUses |-> toolUses, idx |-> idx, calls |-> calls,
     toolExecs |-> toolExecs]

Become(s) ==
    /\ pc' = s.pc
    /\ phase' = s.phase
    /\ iterations' = s.iterations
    /\ initialMessages' = s.initialMessages
    /\ conversationMessages' = s.conversationMessages
    /\ events' = s.events
    /\ streamState' = s.streamState
    /\ toolUses' = s.toolUses
    /\ idx' = s.idx
    /\ calls' = s.calls
    /\ toolExecs' = s.toolExecs

NewCall(fn, messages) ==
    [fn |-> fn, messages |-> messages, outcome |-> "pending",
     failure |-> NoError, toolUses |-> <<>>, stopReason |-> ""]

\* Fail, leaving the stream open after the error event
Fail_KeepsStreamOpen(s, error) ==
    IF s.streamState = "readable"
      THEN [s EXCEPT !.events = Append(@, ErrorEvent(ErrorMessage(error))),
                     !.pc = "failed"]
      ELSE [s EXCEPT !.pc = "crashed"]

\* part_003:246-255, the catch block of start().  When the stream is no
\* longer readable its enqueue throws and start() rejects
Fail(s, error) ==
    IF s.streamState = "readable"
      THEN [s EXCEPT !.events = Append(@, ErrorEvent(ErrorMessage(error))),
                     !.streamState = "closed",
                     !.pc = "failed"]
      ELSE [s EXCEPT !.pc = "crashed"]

\* part_003:243-245, inside the try
SendDone(s) ==
    IF s.streamState = "readable"
      THEN [s EXCEPT !.events = Append(@, DoneEvent),
                     !.streamState = "closed",
                     !.pc = "done"]
      ELSE Fail(s, EnqueueTypeError)

\* part_003:143, handleToolCall is called for toolUses[i]
StartTool(s, i) ==
    [s EXCEPT !.pc = "tool",
              !.idx = i,
              !.toolExecs = Append(@, s.toolUses[i])]

\* part_003:111-133, the first completion call of an iteration
StartCompletion(s) ==
    [s EXCEPT !.pc = "stream",
              !.phase = "first",
              !.iterations = @ + 1,
              !.toolUses = <<>>,
              !.idx = 0,
              !.calls = Append(@, NewCall("createStreamingCompletion",
                                          s.initialMessages))]

\* part_003:186-191 and 273-286
StartContinuation(s) ==
    [s EXCEPT !.pc = "stream",
              !.phase = "continuation",
              !.toolUses = <<>>,
              !.idx = 0,
              !.calls = Append(@, NewCall("streamContinuation",
                                          s.conversationMessages))]

\* LoopTop, treating the exhausted ceiling as a fault
LoopTop_ThrowsAtCeiling(s) ==
    IF s.iterations < MAX_TOOL_ITERATIONS
      THEN StartCompletion(s)
      ELSE Fail(s, AnthropicError("Too many tool iterations", "max_iterations"))

\* part_003:108, the loop test
LoopTop(s) ==
    IF s.iterations < MAX_TOOL_ITERATIONS
      THEN StartCompletion(s)
      ELSE SendDone(s)

\* AfterTurn, executing the tool uses of the turn last to first
AfterTurn_ReversedOrder(s, tu, stopReason) ==
    IF Len(tu) = 0 \/ stopReason # "tool_use"
      THEN SendDone(s)
      ELSE StartTool([s EXCEPT !.toolUses =
                          [i \in 1..Len(tu) |-> tu[Len(tu) + 1 - i]]], 1)

\* part_003:136-138 and 194-199, then the first tool of the turn
AfterTurn(s, tu, stopReason) ==
    IF Len(tu) = 0 \/ stopReason # "tool_use"
      THEN SendDone(s)
      ELSE StartTool([s EXCEPT !.toolUses = tu], 1)

\* the end of a for-of loop over the tool uses: part_003:183-186, 240-241
AfterTools(s) ==
    IF s.phase = "first" THEN StartContinuation(s) ELSE LoopTop(s)

SetLastCall(s, outcome, failure, tu, stopReason) ==
    [s EXCEPT !.calls[Len(s.calls)] =
        [@ EXCEPT !.outcome = outcome, !.failure = failure,
                  !.toolUses = tu, !.stopReason = stopReason]]

\* createStreamingCompletion rethrows what its try block throws as an
\* AnthropicError (anthropic.ts:120); streamContinuation has no catch
Rethrown(s, error) ==
    IF s.phase = "first" THEN MapCompletionError(error) ELSE error

RECURSIVE EnqueueAll(_, _)
EnqueueAll(ev, es) ==
    IF es = <<>> THEN ev ELSE EnqueueAll(Append(ev, Head(es)), Tail(es))

\* OnTextDelta, executing a tool from the fragment while the turn streams
OnTextDelta_StartsTool(s, text) ==
    [s EXCEPT !.events = Append(@, TextEvent(text)),
              !.toolExecs = Append(@, [id |-> 0, name |-> "search_products"])]

\* anthropic.ts:89-94 with part_003:121-124; part_003:292-298
OnTextDelta(s, text) ==
    IF s.streamState = "readable"
      THEN [s EXCEPT !.events = Append(@, TextEvent(text))]
      ELSE Fail(SetLastCall(s, "threw", EnqueueTypeError, <<>>, ""),
                Rethrown(s, EnqueueTypeError))

\* anthropic.ts:106-119 with part_003:125-132; part_003:306-317;
\* then the loop up to its next await
OnStreamEnd(s, tu, stopReason) ==
    IF s.phase = "first" /\ Len(tu) > 0
      THEN IF s.streamState = "readable"
             THEN AfterTurn(
                    [SetLastCall(s, "returned", NoError, tu, stopReason)
                       EXCEPT !.events =
                         EnqueueAll(@, [i \in 1..Len(tu) |-> ToolStartEvent(tu[i])])],
                    tu, stopReason)
             ELSE Fail(SetLastCall(s, "threw", EnqueueTypeError, <<>>, ""),
                       Rethrown(s, EnqueueTypeError))
      ELSE AfterTurn(SetLastCall(s, "returned", NoError, tu, stopReason),
                     tu, stopReason)

\* the provider stream rejects
OnStreamError(s, error) ==
    Fail(SetLastCall(s, "threw", error, <<>>, ""), Rethrown(s, error))

\* part_003:141-183 and 202-240 for toolUses[idx], after handleToolCall settled
OnToolSettled(s, outcome) ==
    LET tu == s.toolUses[s.idx]
        h  == handleToolCall(tu.name, outcome)
        r  == h.result
        pushed == [s EXCEPT !.conversationMessages =
                      @ \o <<ToolUseTurn(tu), ToolResultTurn(tu, r)>>]
        next == IF s.idx < Len(s.toolUses)
                  THEN StartTool(pushed, s.idx + 1)
                  ELSE AfterTools(pushed)
    IN  IF h.threw
          THEN Fail(s, Thrown("Error", "Error", {}))
        ELSE IF r.display = ""
          THEN next
        ELSE IF s.streamState = "readable"
          THEN LET shown == [pushed EXCEPT !.events = Append(@, ToolResultEvent(tu, r))]
               IN  IF s.idx < Len(s.toolUses)
                     THEN StartTool(shown, s.idx + 1)
                     ELSE AfterTools(shown)
        ELSE Fail(s, EnqueueTypeError)

(***************************************************************************)
(* Initial state: the ReadableStream constructor has run start() to its    *)
(* first await, part_003:94-133                                            *)
(***************************************************************************)
\* the date parser is not running
NoDate == [y |-> 0, m |-> 0, d |-> 0]
NotParsed == [success |-> FALSE, startDate |-> NoDate, endDate |-> NoDate,
              error |-> "not parsed"]
NoToolOutcome == [ran |-> FALSE]
DateIdle ==
    /\ today = 0
    /\ clockYear = 0
    /\ dateInput = [form |-> "none"]
    /\ dateResult = NotParsed
    /\ toolOutcome = NoToolOutcome
    /\ rateAttempts = 0

Init ==
    /\ apiKey = TRUE
    /\ client = TRUE
    /\ requests = 1
    /\ DateIdle
    /\ initialMessages \in InitialHistories
    /\ conversationMessages = initialMessages
    /\ pc = "stream"
    /\ phase = "first"
    /\ iterations = 1
    /\ events = <<>>
    /\ streamState = "readable"
    /\ toolUses = <<>>
    /\ idx = 0
    /\ calls = <<NewCall("createStreamingCompletion", initialMessages)>>
    /\ toolExecs = <<>>

(***************************************************************************)
(* What the environment may do within the bounds                           *)
(***************************************************************************)
\* the entries of a sequence of events or turns that have the given type
CountType(seq, type) == Cardinality({ i \in DOMAIN seq : seq[i].type = type })

IsPlainName(name) == name = "search_products"

\* every tool use the provider has requested so far; the id of a tool use
\* is its position in this sequence
AllToolUses ==
    LET RECURSIVE Flat(_)
        Flat(cs) == IF cs = <<>> THEN <<>> ELSE Head(cs).toolUses \o Flat(Tail(cs))
    IN  Flat(calls)

\* tool calls that are not a successful search_products
VariedToolCalls ==
    Cardinality({ i \in DOMAIN AllToolUses : ~IsPlainName(AllToolUses[i].name) })
    + Cardinality({ j \in DOMAIN conversationMessages :
                      /\ conversationMessages[j].type = "tool_result"
                      /\ ~conversationMessages[j].content.success
                      /\ IsPlainName(AllToolUses[conversationMessages[j].id].name) })

\* the tool uses of a turn: ids are fresh, names are the provider's choice
TurnToolUses(names) ==
    [i \in 1..Len(names) |-> [id |-> Len(AllToolUses) + i, name |-> names[i]]]

NameLists ==
    UNION { [1..n -> ToolNames \cup {UnknownToolName}] : n \in 0..MaxToolsPerTurn }

InVariedIterations == iterations <= MaxVariedIterations

IsPlainTurn(names) ==
    Len(names) <= 1 /\ \A i \in DOMAIN names : IsPlainName(names[i])

TurnWithinBounds(names) ==
    \/ IsPlainTurn(names)
    \/ /\ InVariedIterations
       /\ VariedToolCalls + Cardinality({ i \in DOMAIN names : ~IsPlainName(names[i]) })
            <= MaxVariedToolCalls

OutcomeWithinBounds(tu, outcome) ==
    \/ outcome.kind = "returns" /\ outcome.result.success /\ IsPlainName(tu.name)
    \/ /\ InVariedIterations
       /\ ~IsPlainName(tu.name) \/ VariedToolCalls < MaxVariedToolCalls

TextWithinBounds ==
    InVariedIterations /\ CountType(events, "text") < MaxTextDeltas

(***************************************************************************)
(* Actions                                                                 *)
(***************************************************************************)
\* the provider streams a text delta
StreamText ==
    /\ pc = "stream"
    /\ TextWithinBounds
    /\ Become(OnTextDelta(St, "t"))
    /\ UNCHANGED <<keyVars, dateVars, pluginVars>>

\* the provider stream ends with a stop reason and the turn's tool uses
StreamEnd ==
    /\ pc = "stream"
    /\ \E names \in NameLists, stopReason \in StopReasons :
         /\ TurnWithinBounds(names)
         /\ Become(OnStreamEnd(St, TurnToolUses(names), stopReason))
    /\ UNCHANGED <<keyVars, dateVars, pluginVars>>

\* the provider call fails
StreamThrow ==
    /\ pc = "stream"
    /\ \E error \in ProviderFailures : Become(OnStreamError(St, error))
    /\ UNCHANGED <<keyVars, dateVars, pluginVars>>

\* the tool execution in flight settles
ToolReturn ==
    /\ pc = "tool"
    /\ \E outcome \in HandlerOutcomes(toolUses[idx].name) :
         /\ OutcomeWithinBounds(toolUses[idx], outcome)
         /\ Become(OnToolSettled(St, outcome))
    /\ UNCHANGED <<keyVars, dateVars, pluginVars>>

\* the client goes away: the output stream is cancelled
Cancel ==
    /\ pc \in {"stream", "tool"}
    /\ streamState = "readable"
    /\ streamState' = "cancelled"
    /\ UNCHANGED <<pc, phase, iterations, initialMessages, conversationMessages,
                   events, toolUses, idx, calls, toolExecs>>
    /\ UNCHANGED <<keyVars, dateVars, pluginVars>>

Next ==
    \/ StreamText
    \/ StreamEnd
    \/ StreamThrow
    \/ ToolReturn
    \/ Cancel

Spec == Init /\ [][Next]_vars

\* the provider may stall for ever; a backend call of a tool settles
LiveSpec == Init /\ [][Next]_vars /\ WF_vars(ToolReturn)

(***************************************************************************)
(* Properties                                                              *)
(***************************************************************************)
Running == pc \in {"stream", "tool"}
Last(seq) == seq[Len(seq)]

\* C1: a request that the client does not cancel ends with exactly one
\* terminal event, done or error; no event follows it, the stream is closed
\* with it, and it is never emitted while the handler still runs
C1_ExactlyOneTerminalEvent ==
    LET n == CountType(events, "done") + CountType(events, "error")
    IN  /\ n <= 1
        /\ n = 1 => /\ Last(events).type \in {"done", "error"}
                    /\ streamState = "closed"
                    /\ pc = (IF Last(events).type = "done" THEN "done" ELSE "failed")
        /\ streamState = "closed" => n = 1
        /\ (~Running /\ streamState # "cancelled") => n = 1

C1_Witness ==
    /\ pc = "failed"
    /\ Len(calls) > 2
    /\ CountType(events, "tool_result") > 0
    /\ CountType(events, "text") > 0

\* C2: one request makes at most 5 completion calls
C2_AtMostFiveCompletionCalls ==
    Len(calls) <= MAX_TOOL_ITERATIONS

\* C3: when the last turn the ceiling allows still asks for tools, the loop
\* makes no further completion call, emits no error event and ends the
\* stream with done, behind the events forwarded before
CeilingReached ==
    /\ ~Running
    /\ iterations = MAX_TOOL_ITERATIONS
    /\ Last(calls).fn = "streamContinuation"
    /\ Last(calls).outcome = "returned"
    /\ Last(calls).stopReason = "tool_use"
    /\ Len(Last(calls).toolUses) > 0
    /\ Last(toolExecs) = Last(Last(calls).toolUses)

C3_CeilingEndsWithDone ==
    (CeilingReached /\ streamState # "cancelled") =>
        /\ pc = "done"
        /\ Last(events) = DoneEvent
        /\ CountType(events, "error") = 0
        /\ Len(calls) = 2 * MAX_TOOL_ITERATIONS
        /\ \A c \in DOMAIN calls : calls[c].outcome = "returned"

C3_Witness ==
    /\ CeilingReached
    /\ pc = "done"
    /\ CountType(events, "text") > 0

\* the model turn (its position in calls) that requested the tool call id
TurnOf(id) ==
    CHOOSE k \in DOMAIN calls :
        \E i \in DOMAIN calls[k].toolUses : calls[k].toolUses[i].id = id

\* the positions of the entries of a sequence that have the given type
Positions(seq, type) == { i \in DOMAIN seq : seq[i].type = type }

\* C4: in a stream that ended with done, every tool_start is followed by
\* exactly one tool_result of the same tool call, and that tool_result comes
\* before the next tool_start of another tool call of the same model turn
C4_ToolPairing ==
    pc = "done" =>
        \A i \in Positions(events, "tool_start") :
            LET id == events[i].id
                later == { j \in Positions(events, "tool_start") :
                             /\ j > i
                             /\ events[j].id # id
                             /\ TurnOf(events[j].id) = TurnOf(id) }
                upto == IF later = {} THEN Len(events)
                        ELSE (CHOOSE j \in later : \A k \in later : j <= k) - 1
            IN  Cardinality({ k \in Positions(events, "tool_result") :
                                k > i /\ k <= upto /\ events[k].id = id }) = 1

\* C5: every tool_result event has an earlier tool_start event of the same
\* tool call, and no tool call has two tool_result events
C5_StartPrecedesResult ==
    \A j \in Positions(events, "tool_result") :
        /\ \E i \in Positions(events, "tool_start") :
               i < j /\ events[i].id = events[j].id
        /\ \A k \in Positions(events, "tool_result") :
               events[k].id = events[j].id => k = j

\* the ids of the entries of the given type, in the order of the sequence
RECURSIVE IdsOf(_, _)
IdsOf(seq, type) ==
    IF seq = <<>> THEN <<>>
    ELSE (IF Head(seq).type = type THEN <<Head(seq).id>> ELSE <<>>)
         \o IdsOf(Tail(seq), type)

\* the ids of the tool results that carry a display, in history order
RECURSIVE DisplayedIds(_)
DisplayedIds(seq) ==
    IF seq = <<>> THEN <<>>
    ELSE (IF Head(seq).type = "tool_result" /\ Head(seq).content.display # ""
            THEN <<Head(seq).id>> ELSE <<>>)
         \o DisplayedIds(Tail(seq))

\* the ids of the tool uses of the turns whose tools the loop executes, in
\* the order the model requested them
RECURSIVE RequestedIds(_)
RequestedIds(cs) ==
    IF cs = <<>> THEN <<>>
    ELSE (IF Head(cs).outcome = "returned" /\ Head(cs).stopReason = "tool_use"
            THEN [i \in DOMAIN Head(cs).toolUses |-> Head(cs).toolUses[i].id]
            ELSE <<>>)
         \o RequestedIds(Tail(cs))

IsPrefix(a, b) == Len(a) <= Len(b) /\ a = SubSeq(b, 1, Len(a))

\* C6: the tool-use and tool-result turns of the history and the tool_result
\* events follow the order in which the model requested the tool calls
C6_ResultsInRequestOrder ==
    /\ IdsOf(conversationMessages, "tool_result") = IdsOf(conversationMessages, "tool_use")
    /\ IsPrefix(IdsOf(conversationMessages, "tool_result"), RequestedIds(calls))
    /\ IdsOf(events, "tool_result") = DisplayedIds(conversationMessages)

C6_Witness ==
    \E k \in DOMAIN calls :
        /\ Len(calls[k].toolUses) = 2
        /\ \E i, j \in Positions(events, "tool_result") :
               /\ i < j
               /\ events[i].id = calls[k].toolUses[1].id
               /\ events[j].id = calls[k].toolUses[2].id

\* C7: a failing tool execution yields a ToolResult with success = false and
\* an error string and the loop goes on; an error event is on the stream only
\* when the last completion call was failed by the provider
C7_ToolFailuresContained ==
    /\ CountType(events, "error") > 0 =>
           /\ Last(calls).outcome = "threw"
           /\ Last(calls).failure \in ProviderFailures
    /\ \A j \in Positions(conversationMessages, "tool_result") :
           \/ conversationMessages[j].content.success
           \/ /\ conversationMessages[j].content.error # ""
              /\ conversationMessages[j].content.display = ""
    /\ streamState # "cancelled" =>
           CountType(conversationMessages, "tool_result")
             = Len(toolExecs) - (IF pc = "tool" THEN 1 ELSE 0)

C7_Witness ==
    /\ pc = "done"
    /\ \E j \in Positions(conversationMessages, "tool_result") :
           /\ ~conversationMessages[j].content.success
           /\ conversationMessages[j].content.error = "Something went wrong. Please try again."

\* C8: a completion call failed by an upstream timeout ends the request with
\* the timeout message, one failed by an upstream rate limit with the
\* rate-limit message, neither of them with a generic message
C8_DistinctTransientMessages ==
    pc = "failed" =>
        /\ Last(calls).failure = UpstreamTimeout =>
               Last(events).text = "Request timed out. Please try again."
        /\ Last(calls).failure = UpstreamRateLimit =>
               Last(events).text = "Too many requests. Please wait a moment."

\* C9: once the client has cancelled the stream the loop writes no event,
\* starts no completion call and starts no tool execution
C9_NoWorkAfterCancel ==
    [][ streamState = "cancelled" =>
          /\ events' = events
          /\ Len(calls') = Len(calls)
          /\ Len(toolExecs') = Len(toolExecs) ]_vars

\* C10: every request that the client does not cancel ends, also when the
\* provider never answers a completion call
C10_StalledCallEnds ==
    <>(~Running \/ streamState = "cancelled")

(***************************************************************************)
(* The completion client of the process over several requests:             *)
(* anthropic.ts:4-19 and 63.  The client is created by the first call that *)
(* finds the key and is kept for the life of the process; the environment  *)
(* may change between any two steps.  The requests of this specification   *)
(* are served one after the other and their model turns request no tool.   *)
(***************************************************************************)
\* chat requests the process serves
MaxRequests == 3

MissingApiKey ==
    AnthropicError("ANTHROPIC_API_KEY environment variable is not set",
                   "missing_api_key")

\* getClient, creating a client whether or not the key is set
getClient_NeverChecksKey(c, key) ==
    [threw |-> FALSE, error |-> NoError, client |-> TRUE]
\* anthropic.ts:7-19
getClient(c, key) ==
    IF ~c /\ ~key
      THEN [threw |-> TRUE, error |-> MissingApiKey, client |-> c]
      ELSE [threw |-> FALSE, error |-> NoError, client |-> TRUE]

\* part_003:88-112, the state of a new request when start() is entered
NewRequestState(messages) ==
    [pc |-> "start", phase |-> "first", iterations |-> 0,
     initialMessages |-> messages, conversationMessages |-> messages,
     events |-> <<>>, streamState |-> "readable", toolUses |-> <<>>,
     idx |-> 0, calls |-> <<>>, toolExecs |-> <<>>]

\* part_003:105-133 with anthropic.ts:63: the first pass of the loop up to
\* its await; g is what getClient did
FirstCompletion(s, g) ==
    IF g.threw
      THEN Fail([s EXCEPT !.iterations = 1], g.error)
      ELSE StartCompletion(s)

\* no request is being served
LoopIdle ==
    /\ pc = "idle"
    /\ phase = "first"
    /\ iterations = 0
    /\ initialMessages = <<>>
    /\ conversationMessages = <<>>
    /\ events = <<>>
    /\ streamState = "closed"
    /\ toolUses = <<>>
    /\ idx = 0
    /\ calls = <<>>
    /\ toolExecs = <<>>

KeyInit ==
    /\ apiKey \in BOOLEAN
    /\ client = FALSE
    /\ requests = 0
    /\ DateIdle
    /\ LoopIdle

\* the environment variable is set or unset
SetEnv ==
    /\ apiKey' = ~apiKey
    /\ UNCHANGED <<loopVars, client, requests, dateVars, pluginVars>>

\* POST /api/chat: a request arrives and start() runs to its first await
NewRequest ==
    /\ ~Running
    /\ requests < MaxRequests
    /\ \E messages \in InitialHistories :
         LET g == getClient(client, apiKey)
         IN  /\ Become(FirstCompletion(NewRequestState(messages), g))
             /\ client' = g.client
    /\ requests' = requests + 1
    /\ UNCHANGED <<apiKey, dateVars, pluginVars>>

\* the provider stream ends and the turn requests no tool
StreamEndNoTools ==
    /\ pc = "stream"
    /\ \E stopReason \in StopReasons : Become(OnStreamEnd(St, <<>>, stopReason))
    /\ UNCHANGED <<keyVars, dateVars, pluginVars>>

KeyNext ==
    \/ SetEnv
    \/ NewRequest
    \/ StreamText
    \/ StreamEndNoTools
    \/ StreamThrow
    \/ Cancel

KeySpec == KeyInit /\ [][KeyNext]_vars

\* the request was refused for the missing key: one error event closed the
\* stream and the provider was not contacted
RejectedRequest ==
    /\ pc = "failed"
    /\ calls = <<>>
    /\ events = <<ErrorEvent(MissingApiKey.message)>>
    /\ streamState = "closed"

\* a refused request stays refused: nothing is retried or emitted after it
NoRetry == (RejectedRequest /\ requests' = requests) => RejectedRequest'

\* C11 as stated: whenever a request makes its createStreamingCompletion
\* call while the key is not set, the call rejects with missing_api_key
\* before the provider is contacted and the request ends with one error
\* event and no retry
C11_MissingKeyAlwaysRejects ==
    [][/\ (requests' = requests + 1 /\ ~apiKey)
            => /\ getClient(client, apiKey).threw
               /\ getClient(client, apiKey).error.code = "missing_api_key"
               /\ RejectedRequest'
       /\ NoRetry]_vars

\* C11: a createStreamingCompletion call made while the key is not set and
\* before any call of the process has created the client rejects with
\* missing_api_key without contacting the provider, and the request ends
\* with one error event and no retry
C11_MissingKeyRejectsBeforeClientExists ==
    [][/\ (requests' = requests + 1 /\ ~apiKey /\ ~client)
            => /\ getClient(client, apiKey).threw
               /\ getClient(client, apiKey).error.code = "missing_api_key"
               /\ RejectedRequest'
               /\ ~client'
       /\ NoRetry]_vars

C11_Witness == RejectedRequest /\ requests > 1 /\ ~client /\ ~apiKey

(***************************************************************************)
(* The natural-language date parser, dates.ts.                             *)
(*                                                                         *)
(* A Date at local midnight is the number of days since 2024-01-01, a      *)
(* Monday.  new Date(y, m, d), the getters and format(date, 'yyyy-MM-dd')  *)
(* convert between day numbers and calendar fields, with JavaScript's      *)
(* overflow of out-of-range months and days.                               *)
(***************************************************************************)
\* the largest N of 'in N days' and '... for N days'
MaxDays == 8

Years == 2020..2035

IsLeapYear(y) == (y % 4 = 0 /\ y % 100 # 0) \/ y % 400 = 0

DaysInYear(y) == IF IsLeapYear(y) THEN 366 ELSE 365

\* months are JavaScript month indexes, 0..11
DaysInMonth(y, m) ==
    IF m = 1 THEN (IF IsLeapYear(y) THEN 29 ELSE 28)
    ELSE IF m \in {3, 5, 8, 10} THEN 30
    ELSE 31

RECURSIVE DaysBeforeYear(_)
DaysBeforeYear(y) ==
    IF y = 2024 THEN 0
    ELSE IF y > 2024 THEN DaysBeforeYear(y - 1) + DaysInYear(y - 1)
    ELSE DaysBeforeYear(y + 1) - DaysInYear(y)

RECURSIVE DaysBeforeMonth(_, _)
DaysBeforeMonth(y, m) ==
    IF m = 0 THEN 0 ELSE DaysBeforeMonth(y, m - 1) + DaysInMonth(y, m - 1)

\* the day number of the first day of each month of each year
MonthStart ==
    [y \in Years |-> [m \in 0..11 |-> DaysBeforeYear(y) + DaysBeforeMonth(y, m)]]

\* new Date(year, monthIndex, day): months and days out of range carry over
NewDate(year, monthIndex, day) ==
    LET y == year + (monthIndex \div 12)
        m == monthIndex % 12
    IN  MonthStart[y][m] + day - 1

getFullYear(date) ==
    CHOOSE y \in Years :
      MonthStart[y][0] <= date /\ date < MonthStart[y][0] + DaysInYear(y)

getMonth(date) ==
    LET y == getFullYear(date)
    IN  CHOOSE m \in 0..11 :
          MonthStart[y][m] <= date /\ date < MonthStart[y][m] + DaysInMonth(y, m)

getDate(date) == date - NewDate(getFullYear(date), getMonth(date), 1) + 1

\* 0 is Sunday, 6 is Saturday
getDay(date) == (date + 1) % 7

\* dates.ts:313-315, the fields of the 'yyyy-MM-dd' text
formatDate(date) ==
    [y |-> getFullYear(date), m |-> getMonth(date) + 1, d |-> getDate(date)]

\* the order of two 'yyyy-MM-dd' texts
DateLeq(a, b) ==
    \/ a.y < b.y
    \/ a.y = b.y /\ a.m < b.m
    \/ a.y = b.y /\ a.m = b.m /\ a.d <= b.d

\* date-fns
addDays(date, amount) == date + amount
addWeeks(date, amount) == addDays(date, 7 * amount)
\* isBefore, also true of equal dates
isBefore_OrEqual(date, dateToCompare) == date <= dateToCompare
isBefore(date, dateToCompare) == date < dateToCompare
\* with weekStartsOn: 1
startOfWeek(date) == addDays(date, -((getDay(date) + 6) % 7))
endOfWeek(date) == addDays(startOfWeek(date), 6)
nextDay(date, day) ==
    LET delta == day - getDay(date)
    IN  addDays(date, IF delta <= 0 THEN delta + 7 ELSE delta)
nextSaturday(date) == nextDay(date, 6)
nextSunday(date) == nextDay(date, 0)

(***************************************************************************)
(* The input of the parser after toLowerCase().trim(), as the pattern it   *)
(* matches and the fields the pattern captures.  A month word is the index *)
(* parseMonthDay's table gives it, or -1 for a word the table does not     *)
(* hold; numbers are the captured digits.                                  *)
(***************************************************************************)
DateText(form, y1, m1, d1, y2, m2, d2, n) ==
    [form |-> form, y1 |-> y1, m1 |-> m1, d1 |-> d1,
     y2 |-> y2, m2 |-> m2, d2 |-> d2, n |-> n]

Phrase(form)                  == DateText(form, 0, 0, 0, 0, 0, 0, 0)
InDays(form, n)               == DateText(form, 0, 0, 0, 0, 0, 0, n)
MonthRange(w, d1, d2)         == DateText("Month D-D", 0, w, d1, 0, w, d2, 0)
MonthToMonth(w1, d1, w2, d2)  == DateText("Month D to Month D", 0, w1, d1, 0, w2, d2, 0)
SlashRange(m1, d1, m2, d2)    == DateText("M/D - M/D", 0, m1, d1, 0, m2, d2, 0)
MonthDayFor(w, d, n)          == DateText("Month D for N days", 0, w, d, 0, 0, 0, n)
MonthDay(w, d)                == DateText("Month D", 0, w, d, 0, 0, 0, 0)
SlashDate(m, d)               == DateText("M/D", 0, m, d, 0, 0, 0, 0)
IsoDate(y, m, d)              == DateText("ISO", y, m, d, 0, 0, 0, 0)
IsoRange(y1, m1, d1, y2, m2, d2) == DateText("ISO to ISO", y1, m1, d1, y2, m2, d2, 0)

PastError == "That date is in the past. Please choose a future date."
NotUnderstood ==
    "I couldn't understand those dates. Try something like 'next week', 'January 20-27', or 'tomorrow'."

Parsed(startDate, endDate) ==
    [success |-> TRUE, startDate |-> formatDate(startDate),
     endDate |-> formatDate(endDate), error |-> ""]
ParseFailure(error) ==
    [success |-> FALSE, startDate |-> NoDate, endDate |-> NoDate, error |-> error]

\* a branch of the parser either returns or lets the next branch try
Returned(result) == [returned |-> TRUE, result |-> result]
FellThrough == [returned |-> FALSE, result |-> NotParsed]

\* validateNotPast, accepting every date
validateNotPast_AcceptsAll(date, ref) == FellThrough
\* dates.ts:44-52
validateNotPast(date, ref) ==
    IF isBefore(date, ref) THEN Returned(ParseFailure(PastError)) ELSE FellThrough

\* parseMonthDay, reading a word it does not know as January
parseMonthDay_DefaultsToJanuary(month, day, year) ==
    [threw |-> FALSE, date |-> NewDate(year, IF month \in 0..11 THEN month ELSE 0, day)]
\* dates.ts:320-342
parseMonthDay(month, day, year) ==
    IF month \notin 0..11
      THEN [threw |-> TRUE, date |-> 0]
      ELSE [threw |-> FALSE, date |-> NewDate(year, month, day)]

\* dates.ts:347-352
addYearIfPast(date, reference) ==
    IF isBefore(date, reference)
      THEN NewDate(getFullYear(date) + 1, getMonth(date), getDate(date))
      ELSE date

\* dates.ts:358-365
parseISOAsLocal(y, m, d) == NewDate(y, m - 1, d)

\* dates.ts:54-61
ParseToday(ref) == Parsed(ref, addDays(ref, 6))

\* 'tomorrow' with a window that ends on the weekday it starts on
ParseTomorrow_EightDayWindow(ref) ==
    Parsed(addDays(ref, 1), addDays(addDays(ref, 1), 7))
\* dates.ts:63-71
ParseTomorrow(ref) ==
    LET start == addDays(ref, 1) IN Parsed(start, addDays(start, 6))

\* dates.ts:73-83
ParseThisWeek(ref) ==
    LET start == startOfWeek(ref)
        end == endOfWeek(ref)
        actualStart == IF isBefore(start, ref) THEN ref ELSE start
    IN  Parsed(actualStart, end)

\* dates.ts:85-94
ParseNextWeek(ref) ==
    Parsed(startOfWeek(addWeeks(ref, 1)), endOfWeek(addWeeks(ref, 1)))

\* dates.ts:96-105
ParseThisWeekend(ref) == Parsed(nextSaturday(ref), nextSunday(ref))

\* dates.ts:107-116
ParseNextWeekend(ref) ==
    LET saturday == nextSaturday(addWeeks(ref, 1))
    IN  Parsed(saturday, addDays(saturday, 1))

\* dates.ts:118-131
ParseInDays(days, ref) ==
    LET start == addDays(ref, days) IN Parsed(start, addDays(start, 6))

\* dates.ts:185-198, the two dates of a matched range pattern
ResolveRange(startDate, endDate, ref) ==
    LET rollover == isBefore(startDate, ref)
        start == IF rollover THEN addYearIfPast(startDate, ref) ELSE startDate
        end == IF rollover THEN addYearIfPast(endDate, ref) ELSE endDate
        pastCheck == validateNotPast(start, ref)
    IN  IF pastCheck.returned THEN pastCheck ELSE Returned(Parsed(start, end))

\* dates.ts:143-201, year is what the clock shows when the pattern matched
ParseRange(input, ref, year) ==
    IF input.form \in {"Month D-D", "Month D to Month D"}
      THEN LET s == parseMonthDay(input.m1, input.d1, year)
               e == parseMonthDay(input.m2, input.d2, year)
           IN  IF s.threw \/ e.threw THEN FellThrough
               ELSE ResolveRange(s.date, e.date, ref)
    ELSE IF input.form = "M/D - M/D"
      THEN ResolveRange(NewDate(year, input.m1 - 1, input.d1),
                        NewDate(year, input.m2 - 1, input.d2), ref)
    ELSE FellThrough

\* dates.ts:203-232
ParseDuration(input, ref, year) ==
    IF input.form = "Month D for N days"
      THEN LET p == parseMonthDay(input.m1, input.d1, year)
               startDate == IF isBefore(p.date, ref)
                              THEN addYearIfPast(p.date, ref) ELSE p.date
               pastCheck == validateNotPast(startDate, ref)
           IN  IF p.threw THEN FellThrough
               ELSE IF pastCheck.returned THEN pastCheck
               ELSE Returned(Parsed(startDate, addDays(startDate, input.n - 1)))
      ELSE FellThrough

\* dates.ts:234-273
ParseSingleDate(input, ref, year) ==
    IF input.form \in {"Month D", "M/D"}
      THEN LET p == IF input.form = "Month D"
                      THEN parseMonthDay(input.m1, input.d1, year)
                      ELSE [threw |-> FALSE,
                            date |-> NewDate(year, input.m1 - 1, input.d1)]
               startDate == IF isBefore(p.date, ref)
                              THEN addYearIfPast(p.date, ref) ELSE p.date
               pastCheck == validateNotPast(startDate, ref)
           IN  IF p.threw THEN FellThrough
               ELSE IF pastCheck.returned THEN pastCheck
               ELSE Returned(Parsed(startDate, addDays(startDate, 6)))
      ELSE FellThrough

\* dates.ts:275-301
ParseIso(input, ref) ==
    IF input.form \in {"ISO", "ISO to ISO"}
      THEN LET startDate == parseISOAsLocal(input.y1, input.m1, input.d1)
               endDate == IF input.form = "ISO to ISO"
                            THEN parseISOAsLocal(input.y2, input.m2, input.d2)
                            ELSE addDays(startDate, 6)
               pastCheck == validateNotPast(startDate, ref)
           IN  IF pastCheck.returned THEN pastCheck
               ELSE Returned(Parsed(startDate, endDate))
      ELSE FellThrough

\* dates.ts:39-308; ref is today of line 41 and year is what
\* new Date().getFullYear() gives where a branch reads the clock again
parseNaturalDate(input, ref, year) ==
    IF input.form = "today" THEN ParseToday(ref)
    ELSE IF input.form = "tomorrow" THEN ParseTomorrow(ref)
    ELSE IF input.form = "this week" THEN ParseThisWeek(ref)
    ELSE IF input.form = "next week" THEN ParseNextWeek(ref)
    ELSE IF input.form = "this weekend" THEN ParseThisWeekend(ref)
    ELSE IF input.form = "next weekend" THEN ParseNextWeekend(ref)
    ELSE IF input.form \in {"in N days", "N days from now"}
      THEN ParseInDays(input.n, ref)
    ELSE LET range == ParseRange(input, ref, year)
             duration == ParseDuration(input, ref, year)
             single == ParseSingleDate(input, ref, year)
             iso == ParseIso(input, ref)
         IN  IF range.returned THEN range.result
             ELSE IF duration.returned THEN duration.result
             ELSE IF single.returned THEN single.result
             ELSE IF iso.returned THEN iso.result
             ELSE ParseFailure(NotUnderstood)

(***************************************************************************)
(* The parser applied to one input on one day.  The clock is read at       *)
(* dates.ts:41 and again where a month or M/D pattern matched              *)
(* (dates.ts:155, 165, 175, 214, 247); on New Year's Eve midnight may pass *)
(* between the two reads.                                                  *)
(***************************************************************************)
\* a week of January 2026 and the days around year ends and a leap day
ReferenceDays ==
    { NewDate(2026, 0, d) : d \in 12..18 }
      \cup { NewDate(2026, 11, 1), NewDate(2026, 11, 31), NewDate(2027, 11, 31),
             NewDate(2028, 1, 28), NewDate(2028, 1, 29), NewDate(2028, 2, 1),
             NewDate(2028, 11, 31) }

Phrases ==
    {"today", "tomorrow", "this week", "next week", "this weekend", "next weekend"}
\* texts no pattern matches
Unmatched == {"empty", "whitespace", "gibberish"}
\* january, february, december and a word that is no month
MonthWords == {0, 1, 11, -1}
DayFields == {0, 1, 15, 20, 29, 31}
SlashMonths == {1, 2, 12, 13}
IsoStarts ==
    { IsoDate(y, m, d) : y \in {2025, 2026, 2028}, m \in {1, 2, 12},
                         d \in {1, 10, 15, 17, 29, 31} }
IsoEnds == { <<2026, 1, 1>>, <<2026, 1, 20>>, <<2028, 3, 1>> }

DateInputs ==
    { Phrase(f) : f \in Phrases \cup Unmatched }
      \cup { InDays(f, n) : f \in {"in N days", "N days from now"}, n \in 0..MaxDays }
      \cup { MonthRange(w, d1, d2) : w \in MonthWords, d1 \in DayFields, d2 \in DayFields }
      \cup { MonthToMonth(w1, d1, w2, d2) :
               w1 \in MonthWords, d1 \in DayFields, w2 \in MonthWords, d2 \in DayFields }
      \cup { SlashRange(m1, d1, m2, d2) :
               m1 \in SlashMonths, d1 \in DayFields, m2 \in SlashMonths, d2 \in DayFields }
      \cup { MonthDayFor(w, d, n) : w \in MonthWords, d \in DayFields, n \in 0..MaxDays }
      \cup { MonthDay(w, d) : w \in MonthWords, d \in DayFields }
      \cup { SlashDate(m, d) : m \in SlashMonths, d \in DayFields }
      \cup IsoStarts
      \cup { IsoRange(i.y1, i.m1, i.d1, e[1], e[2], e[3]) : i \in IsoStarts, e \in IsoEnds }

DateInit ==
    /\ apiKey = TRUE
    /\ client = FALSE
    /\ requests = 0
    /\ LoopIdle
    /\ today \in ReferenceDays
    /\ clockYear = getFullYear(today)
    /\ dateInput \in DateInputs
    /\ dateResult = NotParsed
    /\ toolOutcome = NoToolOutcome
    /\ rateAttempts = 0

\* midnight of New Year's Eve passes after today was fixed
ClockAdvances ==
    /\ dateResult = NotParsed
    /\ clockYear = getFullYear(today)
    /\ getFullYear(addDays(today, 1)) > clockYear
    /\ clockYear' = clockYear + 1
    /\ UNCHANGED <<loopVars, keyVars, today, dateInput, dateResult,
                   toolOutcome, pluginVars>>

\* parseNaturalDate(dateInput) returns
ParseDate ==
    /\ dateResult = NotParsed
    /\ dateResult' = parseNaturalDate(dateInput, today, clockYear)
    /\ UNCHANGED <<loopVars, keyVars, today, clockYear, dateInput, toolOutcome,
                   pluginVars>>

DateNext ==
    \/ ClockAdvances
    \/ ParseDate

DateSpec == DateInit /\ [][DateNext]_vars

DateParsed == dateResult # NotParsed

\* the day a 'yyyy-MM-dd' text names
DayOf(text) == NewDate(text.y, text.m - 1, text.d)

\* C12: every successful result has startDate <= endDate
C12_StartNotAfterEnd ==
    (DateParsed /\ dateResult.success)
        => DateLeq(dateResult.startDate, dateResult.endDate)

\* C13: the parser fails or returns a startDate on or after the reference
\* date
C13_StartNotInPast ==
    (DateParsed /\ dateResult.success)
        => DateLeq(formatDate(today), dateResult.startDate)

\* a date of the current year that lies before today was moved on a year
C13_Witness ==
    /\ DateParsed
    /\ dateResult.success
    /\ dateInput.form = "M/D - M/D"
    /\ dateResult.startDate.y = getFullYear(today) + 1

\* C14: the result depends on the input and the reference date alone: it is
\* what the parser returns when the clock shows the reference date's year at
\* every read
C14_ClockIndependent ==
    DateParsed => dateResult = parseNaturalDate(dateInput, today, getFullYear(today))

\* the month and day fields name a day of that month in the year
IsDayOfMonth(y, monthIndex, d) ==
    monthIndex \in 0..11 /\ d \in 1..DaysInMonth(y, monthIndex)

\* the rule of year inference for one endpoint: the month and day in the
\* reference date's year, or in the next year when that lies before the
\* reference date
InferYear(monthIndex, d, ref) ==
    LET y == getFullYear(ref)
    IN  IF NewDate(y, monthIndex, d) < ref
          THEN [y |-> y + 1, m |-> monthIndex + 1, d |-> d]
          ELSE [y |-> y, m |-> monthIndex + 1, d |-> d]

\* the month index an input without a year gives for each endpoint
StartMonth(input) ==
    IF input.form \in {"M/D", "M/D - M/D"} THEN input.m1 - 1 ELSE input.m1
EndMonth(input) ==
    IF input.form = "M/D - M/D" THEN input.m2 - 1 ELSE input.m2

YearlessForms ==
    {"Month D", "M/D", "Month D for N days", "Month D-D", "Month D to Month D",
     "M/D - M/D"}
YearlessRanges == {"Month D-D", "Month D to Month D", "M/D - M/D"}

\* both endpoints are days of the calendar in this year and the next
HasCalendarEndpoints(input, ref) ==
    LET y == getFullYear(ref)
    IN  /\ IsDayOfMonth(y, StartMonth(input), input.d1)
        /\ IsDayOfMonth(y + 1, StartMonth(input), input.d1)
        /\ input.form \in YearlessRanges =>
             /\ IsDayOfMonth(y, EndMonth(input), input.d2)
             /\ IsDayOfMonth(y + 1, EndMonth(input), input.d2)

\* C15: for an input without a year, each endpoint on its own gets the
\* reference date's year, or the next year when it would lie before the
\* reference date
C15_YearInferredPerEndpoint ==
    (/\ DateParsed
     /\ dateInput.form \in YearlessForms
     /\ HasCalendarEndpoints(dateInput, today))
        => /\ dateResult.success
           /\ dateResult.startDate = InferYear(StartMonth(dateInput), dateInput.d1, today)
           /\ dateInput.form \in YearlessRanges =>
                dateResult.endDate = InferYear(EndMonth(dateInput), dateInput.d2, today)

\* C16: an ISO start date before the reference date fails with the past
\* error and no dates; an ISO start date equal to the reference date is
\* accepted
C16_IsoPastRejected ==
    (/\ DateParsed
     /\ dateInput.form \in {"ISO", "ISO to ISO"}
     /\ IsDayOfMonth(dateInput.y1, dateInput.m1 - 1, dateInput.d1))
        => LET start == [y |-> dateInput.y1, m |-> dateInput.m1, d |-> dateInput.d1]
           IN  /\ ~DateLeq(formatDate(today), start)
                    => dateResult = ParseFailure(PastError)
               /\ start = formatDate(today)
                    => dateResult.success /\ dateResult.startDate = start

\* an ISO date that names the reference date was accepted
C16_Witness ==
    /\ DateParsed
    /\ dateInput.form = "ISO"
    /\ dateResult.success
    /\ dateResult.startDate = formatDate(today)

SingleDateForms ==
    {"today", "tomorrow", "in N days", "N days from now", "Month D", "M/D", "ISO"}

\* C17: a successful parse of a single date without duration or end has
\* endDate = startDate + 6 calendar days
C17_DefaultWindow ==
    (DateParsed /\ dateInput.form \in SingleDateForms /\ dateResult.success)
        => DayOf(dateResult.endDate) = DayOf(dateResult.startDate) + 6

\* a default window that ends in the year after the one it starts in
C17_Witness ==
    /\ DateParsed
    /\ dateInput.form \in SingleDateForms
    /\ dateResult.success
    /\ dateResult.endDate.y = dateResult.startDate.y + 1

\* C18: 'this weekend' and 'next weekend' start on a Saturday after the
\* reference date and end on the day after it; 'next weekend' starts 7 days
\* after 'this weekend'
C18_WeekendIsSaturdaySunday ==
    (DateParsed /\ dateInput.form \in {"this weekend", "next weekend"})
        => /\ dateResult.success
           /\ getDay(DayOf(dateResult.startDate)) = 6
           /\ DayOf(dateResult.startDate) > today
           /\ DayOf(dateResult.endDate) = DayOf(dateResult.startDate) + 1
           /\ dateInput.form = "next weekend" =>
                DayOf(dateResult.startDate) =
                  DayOf(parseNaturalDate(Phrase("this weekend"), today, clockYear).startDate) + 7

\* the input matches no recognized form: no pattern matches it, or a month
\* pattern matches it with a word that is no month
Unrecognized(input) ==
    \/ input.form \in Unmatched
    \/ /\ input.form \in {"Month D", "Month D for N days", "Month D-D"}
       /\ input.m1 \notin 0..11
    \/ /\ input.form = "Month D to Month D"
       /\ input.m1 \notin 0..11 \/ input.m2 \notin 0..11

\* C19: input that matches no recognized form fails with a non-empty error
\* and no dates
C19_UnrecognizedFails ==
    (DateParsed /\ Unrecognized(dateInput))
        => /\ ~dateResult.success
           /\ dateResult.error # ""
           /\ dateResult.startDate = NoDate
           /\ dateResult.endDate = NoDate

\* a month pattern matched a word that is no month and the parse failed
C19_Witness ==
    /\ DateParsed
    /\ dateInput.form = "Month D"
    /\ dateInput.m1 \notin 0..11
    /\ dateResult = ParseFailure(NotUnderstood)

(***************************************************************************)
(* The availability tool, tools.ts:222-294.  Its input carries the dates   *)
(* text (or none), the raw start_date and end_date texts (or none) and the *)
(* product id or name; the backend's answers are inputs of the model.      *)
(***************************************************************************)
NoDatesText == Phrase("absent")
NoProduct == [id |-> 0, name |-> ""]
NoData ==
    [available |-> FALSE, product_id |-> 0, product_name |-> "",
     start_date |-> NoDate, end_date |-> NoDate, next_available_date |-> NoDate,
     booking |-> FALSE]

\* JavaScript truthiness of the optional fields: undefined, '' and 0 are false
HasDates(input) == input.dates.form \notin {"absent", "empty"}
HasText(date) == date # NoDate
HasId(id) == id # 0

AvailabilityFailure(error) ==
    [success |-> FALSE, error |-> error, data |-> NoData, display |-> <<>>]

\* tools.ts:357-375, the values the text interpolates
formatAvailabilityResult(availability, product, startDate, endDate) ==
    LET productName == IF product = NoProduct THEN "This firearm" ELSE product.name
    IN  IF availability.available
          THEN <<"is available", productName, startDate, endDate>>
        ELSE IF HasText(availability.next_available_date)
          THEN <<"is not available, next available", productName, startDate,
                 endDate, availability.next_available_date>>
        ELSE <<"is not available", productName, startDate, endDate>>

\* woocommerce.ts:28-29: which API the configuration selects
Modes == {"custom-api", "woocommerce", "none"}

\* the calls of the woocommerce.ts functions; sent tells whether the call
\* made a request to the service
SearchCall(query, mode) ==
    [service |-> "searchProducts", query |-> query, product_id |-> 0,
     start_date |-> NoDate, end_date |-> NoDate, sent |-> mode # "none"]
AvailabilityCall(productId, startDate, endDate, mode) ==
    [service |-> "checkAvailability", query |-> "", product_id |-> productId,
     start_date |-> startDate, end_date |-> endDate, sent |-> mode = "custom-api"]

\* woocommerce.ts:268-276 with getProducts, 185-231: answer is what the
\* catalog does with the request
searchProducts(answer, mode) ==
    IF mode = "none"
      THEN [threw |-> TRUE, code |-> "config_error", products |-> <<>>]
      ELSE answer

\* woocommerce.ts:282-299: answer is what the availability service does with
\* the request
checkAvailability(answer, mode) ==
    IF mode # "custom-api"
      THEN [threw |-> FALSE, code |-> "",
            response |-> [available |-> TRUE, next_available_date |-> NoDate]]
      ELSE answer

HandlerReturned(result, made) ==
    [threw |-> FALSE, code |-> "", result |-> result, calls |-> made]
HandlerThrew(code, made) ==
    [threw |-> TRUE, code |-> code, result |-> AvailabilityFailure("thrown"),
     calls |-> made]

\* tools.ts:226-247, the dates of the request: resolved, or the failure
RequestedDates(input, ref, year) ==
    IF HasDates(input)
      THEN LET parsed == parseNaturalDate(input.dates, ref, year)
           IN  IF ~parsed.success
                 THEN [ok |-> FALSE, startDate |-> NoDate, endDate |-> NoDate,
                       error |-> IF parsed.error # "" THEN parsed.error
                                 ELSE "I couldn't understand those dates. Try something like 'next week' or 'January 20-27'."]
                 ELSE [ok |-> TRUE, startDate |-> parsed.startDate,
                       endDate |-> parsed.endDate, error |-> ""]
    ELSE IF HasText(input.start_date) /\ HasText(input.end_date)
      THEN [ok |-> TRUE, startDate |-> input.start_date,
            endDate |-> input.end_date, error |-> ""]
    ELSE [ok |-> FALSE, startDate |-> NoDate, endDate |-> NoDate,
          error |-> "Please specify the dates you want to rent."]

\* ResolveProduct, taking the last match of the search by name
ResolveProduct_LastMatch(input, backend) ==
    LET byName == ~HasId(input.product_id) /\ input.product_name # ""
        search == searchProducts(backend.byName, backend.mode)
        found == byName /\ ~search.threw /\ Len(search.products) > 0
    IN  [threw |-> byName /\ search.threw,
         code |-> search.code,
         calls |-> IF byName THEN <<SearchCall(input.product_name, backend.mode)>>
                   ELSE <<>>,
         product |-> IF found THEN search.products[Len(search.products)] ELSE NoProduct,
         productId |-> IF found THEN search.products[Len(search.products)].id
                       ELSE input.product_id]
\* tools.ts:249-261, the product of the request: by id, or the first match
\* of a search by name
ResolveProduct(input, backend) ==
    LET byName == ~HasId(input.product_id) /\ input.product_name # ""
        search == searchProducts(backend.byName, backend.mode)
        found == byName /\ ~search.threw /\ Len(search.products) > 0
    IN  [threw |-> byName /\ search.threw,
         code |-> search.code,
         calls |-> IF byName THEN <<SearchCall(input.product_name, backend.mode)>>
                   ELSE <<>>,
         product |-> IF found THEN search.products[1] ELSE NoProduct,
         productId |-> IF found THEN search.products[1].id
                       ELSE input.product_id]

\* tools.ts:277-278, products.find((p) => p.id === productId) || null
FindProduct(products, productId) ==
    LET matches == { i \in DOMAIN products : products[i].id = productId }
    IN  IF matches = {} THEN NoProduct
        ELSE products[CHOOSE i \in matches : \A j \in matches : i <= j]

\* tools.ts:280-293
AvailabilityResult(availability, productId, product, dates) ==
    [success |-> TRUE, error |-> "",
     data |-> [available |-> availability.available,
               product_id |-> productId,
               product_name |-> product.name,
               start_date |-> dates.startDate,
               end_date |-> dates.endDate,
               next_available_date |-> availability.next_available_date,
               booking |-> product # NoProduct],
     display |-> formatAvailabilityResult(availability, product,
                                          dates.startDate, dates.endDate)]

\* tools.ts:263-293, p is what ResolveProduct gave
CheckResolvedProduct(dates, p, backend) ==
    LET availability == checkAvailability(backend.availability, backend.mode)
        details == searchProducts(backend.byId, backend.mode)
        availabilityCalls ==
            Append(p.calls, AvailabilityCall(p.productId, dates.startDate,
                                             dates.endDate, backend.mode))
        needDetails == p.product = NoProduct
        allCalls == IF needDetails
                      THEN Append(availabilityCalls,
                                  SearchCall(ToString(p.productId), backend.mode))
                      ELSE availabilityCalls
    IN  IF p.threw THEN HandlerThrew(p.code, p.calls)
        ELSE IF ~HasId(p.productId)
          THEN HandlerReturned(
                 AvailabilityFailure("I couldn't find that firearm. Could you tell me the specific name or search for it first?"),
                 p.calls)
        ELSE IF availability.threw THEN HandlerThrew(availability.code, availabilityCalls)
        ELSE IF needDetails /\ details.threw THEN HandlerThrew(details.code, allCalls)
        ELSE HandlerReturned(
               AvailabilityResult(
                 availability.response, p.productId,
                 IF needDetails THEN FindProduct(details.products, p.productId)
                 ELSE p.product,
                 dates),
               allCalls)

\* tools.ts:231-293, dates is what RequestedDates gave
CheckRequestedDates(input, dates, backend) ==
    IF ~dates.ok
      THEN HandlerReturned(AvailabilityFailure(dates.error), <<>>)
      ELSE CheckResolvedProduct(dates, ResolveProduct(input, backend), backend)

\* tools.ts:222-294
handleAvailabilityCheck(input, ref, year, backend) ==
    CheckRequestedDates(input, RequestedDates(input, ref, year), backend)

Glock19 == [id |-> 42, name |-> "Glock 19"]
Glock17 == [id |-> 7, name |-> "Glock 17"]

SearchOutcomes ==
    { [threw |-> TRUE, code |-> "api_error", products |-> <<>>] }
      \cup { [threw |-> FALSE, code |-> "", products |-> ps] :
               ps \in { <<>>, <<Glock19>>, <<Glock17, Glock19>> } }

AvailabilityOutcomes ==
    { [threw |-> TRUE, code |-> "api_error",
       response |-> [available |-> FALSE, next_available_date |-> NoDate]] }
      \cup { [threw |-> FALSE, code |-> "", response |-> r] :
               r \in { [available |-> TRUE, next_available_date |-> NoDate],
                       [available |-> FALSE, next_available_date |-> NoDate],
                       [available |-> FALSE,
                        next_available_date |-> [y |-> 2026, m |-> 2, d |-> 3]] } }

Backends ==
    [mode : Modes, byName : SearchOutcomes, byId : SearchOutcomes,
     availability : AvailabilityOutcomes]

\* the dates texts the model hands the tool
ToolDatesTexts ==
    { NoDatesText, Phrase("empty"), Phrase("whitespace"), Phrase("gibberish"),
      Phrase("tomorrow"), MonthRange(0, 20, 29), MonthDay(-1, 20),
      IsoDate(2026, 1, 10), IsoDate(2026, 1, 20) }

ToolInputs ==
    { [dates |-> dateInput, start_date |-> e[1], end_date |-> e[2],
       product_id |-> id, product_name |-> name] :
        e \in { <<NoDate, NoDate>>,
                <<[y |-> 2026, m |-> 1, d |-> 20], NoDate>>,
                <<[y |-> 2026, m |-> 1, d |-> 20], [y |-> 2026, m |-> 1, d |-> 27]>>,
                <<[y |-> 2026, m |-> 1, d |-> 20], [y |-> 2025, m |-> 12, d |-> 27]>> },
        id \in {0, 42},
        name \in {"", "Glock 19"} }

AvailInit ==
    /\ apiKey = TRUE
    /\ client = FALSE
    /\ requests = 0
    /\ LoopIdle
    /\ today = NewDate(2026, 0, 15)
    /\ clockYear = getFullYear(today)
    /\ dateInput \in ToolDatesTexts
    /\ dateResult = NotParsed
    /\ toolOutcome = NoToolOutcome
    /\ rateAttempts = 0

\* the model calls check_availability and the handler settles
CheckAvailability ==
    /\ ~toolOutcome.ran
    /\ \E input \in ToolInputs, backend \in Backends :
         toolOutcome' =
           [ran |-> TRUE, input |-> input, backend |-> backend] @@
             handleAvailabilityCheck(input, today, clockYear, backend)
    /\ UNCHANGED <<loopVars, keyVars, today, clockYear, dateInput, dateResult,
                   pluginVars>>

AvailNext == CheckAvailability

AvailSpec == AvailInit /\ [][AvailNext]_vars

\* the dates text of the call is one the parser rejects
DatesRejected ==
    /\ toolOutcome.ran
    /\ toolOutcome.input.dates # NoDatesText
    /\ ~parseNaturalDate(toolOutcome.input.dates, today, clockYear).success

\* C20: a dates text that the parser rejects gives a failed tool result
\* with the parser's error and no call to the catalog or the availability
\* service, whether or not start_date and end_date are supplied
C20_ParserFailureSurfaced ==
    DatesRejected
        => /\ ~toolOutcome.threw
           /\ ~toolOutcome.result.success
           /\ toolOutcome.result.error =
                parseNaturalDate(toolOutcome.input.dates, today, clockYear).error
           /\ toolOutcome.calls = <<>>

\* the handler got past the dates of the request
DatesResolved ==
    /\ toolOutcome.ran
    /\ RequestedDates(toolOutcome.input, today, clockYear).ok

\* the product ids the handler asked the availability of
AvailabilityAsked ==
    { toolOutcome.calls[i].product_id :
        i \in { j \in DOMAIN toolOutcome.calls :
                  toolOutcome.calls[j].service = "checkAvailability" } }

\* the texts the handler searched the catalog for
Searched ==
    { toolOutcome.calls[i].query :
        i \in { j \in DOMAIN toolOutcome.calls :
                  toolOutcome.calls[j].service = "searchProducts" } }

NotFoundError ==
    "I couldn't find that firearm. Could you tell me the specific name or search for it first?"

\* C21: a given product_id is used as is; without it the first match of
\* the search by product_name is used; a product that is still unresolved
\* gives the 'could not find that firearm' failure and no availability call
C21_ProductResolution ==
    DatesResolved =>
      LET input == toolOutcome.input
          search == searchProducts(toolOutcome.backend.byName, toolOutcome.backend.mode)
      IN  /\ HasId(input.product_id)
               => /\ AvailabilityAsked = {input.product_id}
                  /\ input.product_name \notin Searched
          /\ (~HasId(input.product_id) /\ input.product_name # ""
                /\ ~search.threw /\ Len(search.products) > 0)
               => AvailabilityAsked = {search.products[1].id}
          /\ (~HasId(input.product_id)
                /\ (input.product_name = ""
                      \/ (~search.threw /\ Len(search.products) = 0)))
               => /\ ~toolOutcome.threw
                  /\ toolOutcome.result = AvailabilityFailure(NotFoundError)
                  /\ AvailabilityAsked = {}

\* the search by name had two matches and the first was checked
C21_Witness ==
    /\ DatesResolved
    /\ ~HasId(toolOutcome.input.product_id)
    /\ toolOutcome.backend.mode = "custom-api"
    /\ toolOutcome.backend.byName.products = <<Glock17, Glock19>>
    /\ AvailabilityAsked = {7}

(***************************************************************************)
(* The order lookup: the lookup_order tool of the chatbot (tools.ts) and   *)
(* the POST /orders/lookup endpoint of the WordPress plugin (part_009).    *)
(* An order number is a tagged text: whether the property was given, the   *)
(* RAG- prefix it starts with (in either case) and the rest of the text.   *)
(***************************************************************************)
RATE_LIMIT_ORDERS == 5

NeedBothError == "I need both your order number and email address to look up your order."

OrderNumberText(given, prefix, rest) == [given |-> given, prefix |-> prefix, rest |-> rest]
EmailText(given, text) == [given |-> given, text |-> text]

\* JavaScript's truthiness of a string property: given and not ''
Truthy(given, text) == given /\ text # ""

\* tools.ts:313: orderNumber.replace(/^RAG-/i, '')
cleanOrderNumber(orderNumber) == orderNumber.rest

\* the orders of the shop: number and billing email as stored
Orders == { [number |-> "1001", email |-> "Owner@Example.com", status |-> "shipped"] }

\* part_009:335,359: strtolower
strtolower(text) ==
    CASE text = "Owner@Example.com" -> "owner@example.com"
      [] text = "OWNER@EXAMPLE.COM" -> "owner@example.com"
      [] OTHER -> text

\* part_009:140-146: is_email, on the texts of the model
is_email(text) == text \in {"owner@example.com", "Owner@Example.com",
                            "OWNER@EXAMPLE.COM", "wrong@email.com"}

\* part_009:349: wc_get_order
wc_get_order(order_number) == { o \in Orders : o.number = order_number }

\* part_009:734-749: 0 stands for no transient
check_rate_limit(attempts) ==
    IF attempts = 0 THEN [allowed |-> TRUE, attempts |-> 1]
    ELSE IF attempts >= RATE_LIMIT_ORDERS THEN [allowed |-> FALSE, attempts |-> attempts]
    ELSE [allowed |-> TRUE, attempts |-> attempts + 1]

NoOrder == [number |-> "", email |-> "", status |-> ""]
PluginError(code, attempts) == [ok |-> FALSE, code |-> code, order |-> NoOrder, attempts |-> attempts]
PluginOrder(order, attempts) == [ok |-> TRUE, code |-> "", order |-> order, attempts |-> attempts]

\* the endpoint telling a wrong email apart from an unknown order
VerifyEmail_RevealsWrongEmail(order, email, attempts) ==
    IF strtolower(order.email) # email
      THEN PluginError("email_mismatch", attempts)
      ELSE PluginOrder(order, attempts)

\* part_009:358-370
VerifyEmail(order, email, attempts) ==
    IF strtolower(order.email) # email
      THEN PluginError("order_not_found", attempts)
      ELSE PluginOrder(order, attempts)

\* part_009:338-356, after the rate limit has been counted
FindOrder(order_number, email, limit) ==
    IF ~limit.allowed THEN PluginError("rate_limit", limit.attempts)
    ELSE IF wc_get_order(order_number) = {}
      THEN PluginError("order_not_found", limit.attempts)
    ELSE VerifyEmail(CHOOSE o \in wc_get_order(order_number) : TRUE, email,
                     limit.attempts)

\* part_009:131-148 and part_009:334-375: the argument validation of the
\* route, then the handler
lookup_order(order_number, email, attempts) ==
    IF ~is_email(email) THEN PluginError("rest_invalid_param", attempts)
    ELSE FindOrder(order_number, strtolower(email), check_rate_limit(attempts))

\* a request the chatbot sent to POST /orders/lookup
OrderRequest(order_number, email) == [order_number |-> order_number, email |-> email]

OrderOutcome(outcome, made, attempts) ==
    [outcome |-> outcome, calls |-> made, attempts |-> attempts]

\* tools.ts:380-403, by the values it interpolates
formatOrderResult(order) == <<"Order #", order.number, "Status:", order.status>>

OrderSuccess(order) ==
    [success |-> TRUE, error |-> "", display |-> formatOrderResult(order),
     data |-> order]

\* woocommerce.ts:60-83: the response of the plugin becomes a value or a
\* WooCommerceError; an unreachable host makes fetch throw another error
customApiRequest(response, network) ==
    IF network = "down" THEN ThrowsOther
    ELSE IF ~response.ok THEN ThrowsWoo(response.code)
    ELSE Returns(OrderSuccess(response.order))

\* woocommerce.ts:305-320
lookupOrder(request, backend) ==
    IF backend.mode # "custom-api"
      THEN OrderOutcome(ThrowsWoo("plugin_required"), <<>>, backend.attempts)
    ELSE IF backend.network = "down"
      THEN OrderOutcome(ThrowsOther, <<request>>, backend.attempts)
    ELSE OrderOutcome(
           customApiRequest(lookup_order(request.order_number, request.email,
                                         backend.attempts), backend.network),
           <<request>>,
           lookup_order(request.order_number, request.email,
                        backend.attempts).attempts)

\* tools.ts:299-325
handleOrderLookup(input, backend) ==
    IF \/ ~Truthy(input.order_number.given,
                  input.order_number.prefix \o input.order_number.rest)
       \/ ~Truthy(input.email.given, input.email.text)
      THEN OrderOutcome(Returns(ToolFailure(NeedBothError)), <<>>, backend.attempts)
      ELSE lookupOrder(OrderRequest(cleanOrderNumber(input.order_number),
                                    input.email.text), backend)

OrderPrefixes == {"", "RAG-", "rag-"}
OrderRests == {"", "1001", "999999"}
OrderNumbers ==
    { OrderNumberText(FALSE, "", "") }
      \cup { OrderNumberText(TRUE, p, r) : p \in OrderPrefixes, r \in OrderRests }
Emails ==
    { EmailText(FALSE, "") }
      \cup { EmailText(TRUE, t) : t \in {"", "owner@example.com", "OWNER@EXAMPLE.COM",
                                         "wrong@email.com", "not an email"} }
OrderInputs == [order_number : OrderNumbers, email : Emails]
Networks == {"ok", "down"}

OrderInit ==
    /\ apiKey = TRUE
    /\ client = FALSE
    /\ requests = 0
    /\ LoopIdle
    /\ DateIdle
    /\ rateAttempts = 0

\* what one lookup_order tool call did: the handler's outcome, the requests
\* it sent, and the result handleToolCall gave to the loop
LookupOutcome(input, backend, settled) ==
    [ran |-> TRUE, input |-> input, backend |-> backend,
     outcome |-> settled.outcome, calls |-> settled.calls,
     result |-> handleToolCall("lookup_order", settled.outcome).result]

\* the model calls lookup_order and handleToolCall settles
LookupOrder ==
    /\ \E input \in OrderInputs, mode \in Modes, network \in Networks :
         LET backend == [mode |-> mode, network |-> network, attempts |-> rateAttempts]
             settled == handleOrderLookup(input, backend)
         IN  /\ toolOutcome' = LookupOutcome(input, backend, settled)
             /\ rateAttempts' = settled.attempts
    /\ UNCHANGED <<loopVars, keyVars, today, clockYear, dateInput, dateResult>>

\* part_009:45,739,747: the transient expires after RATE_LIMIT_WINDOW
RateWindowExpires ==
    /\ rateAttempts > 0
    /\ rateAttempts' = 0
    /\ UNCHANGED <<loopVars, keyVars, dateVars>>

OrderNext == LookupOrder \/ RateWindowExpires

OrderSpec == OrderInit /\ [][OrderNext]_vars

OrderNumberEmpty(orderNumber) ==
    ~orderNumber.given \/ orderNumber.prefix \o orderNumber.rest = ""
EmailEmpty(email) == ~email.given \/ email.text = ""

\* C22: a lookup_order call whose order_number or email is missing or empty
\* returns a failed result without a call of the order service, and every
\* call of the order service carries a non-empty order number and a
\* non-empty email
C22_OrderLookupFailsFast ==
    toolOutcome.ran =>
      /\ (OrderNumberEmpty(toolOutcome.input.order_number)
            \/ EmailEmpty(toolOutcome.input.email))
           => /\ ~toolOutcome.result.success
              /\ toolOutcome.calls = <<>>
      /\ \A i \in 1..Len(toolOutcome.calls) :
           /\ toolOutcome.calls[i].order_number # ""
           /\ toolOutcome.calls[i].email # ""

\* the order number names an order of the shop once its prefix is removed
OrderExists(orderNumber) ==
    ~OrderNumberEmpty(orderNumber) /\ wc_get_order(cleanOrderNumber(orderNumber)) # {}
OrderUnknown(orderNumber) ==
    ~OrderNumberEmpty(orderNumber) /\ wc_get_order(cleanOrderNumber(orderNumber)) = {}

\* the email is not the billing email of the order with that number
WrongEmail(orderNumber, email) ==
    /\ ~EmailEmpty(email)
    /\ \A o \in wc_get_order(cleanOrderNumber(orderNumber)) :
         strtolower(o.email) # strtolower(email.text)

\* the result lookup_order would give the caller for this input
LookupResult(input, backend) ==
    handleToolCall("lookup_order", handleOrderLookup(input, backend).outcome).result

\* C23: the result of looking up an existing order with a wrong email is the
\* result that looking up any nonexistent order with that email gives in
\* the same backend state: a failure with the same error text, no data and
\* no display
C23_AntiEnumeration ==
    ( /\ toolOutcome.ran
      /\ OrderExists(toolOutcome.input.order_number)
      /\ WrongEmail(toolOutcome.input.order_number, toolOutcome.input.email) )
    => /\ ~toolOutcome.result.success
       /\ toolOutcome.result.display = ""
       /\ "data" \notin DOMAIN toolOutcome.result
       /\ \A n \in OrderNumbers :
            OrderUnknown(n)
              => LookupResult([order_number |-> n, email |-> toolOutcome.input.email],
                              toolOutcome.backend) = toolOutcome.result

\* the plugin found the order, compared the email and refused
C23_Witness ==
    /\ toolOutcome.ran
    /\ OrderExists(toolOutcome.input.order_number)
    /\ toolOutcome.input.email.text = "wrong@email.com"
    /\ toolOutcome.backend.mode = "custom-api"
    /\ toolOutcome.backend.network = "ok"
    /\ toolOutcome.backend.attempts < RATE_LIMIT_ORDERS
    /\ toolOutcome.outcome = ThrowsWoo("order_not_found")
    /\ toolOutcome.result = ToolFailure(getErrorMessage("order_not_found"))

(***************************************************************************)
(* The catalog search: the search_products tool (tools.ts) over            *)
(* getProducts (woocommerce.ts).  The catalog's answer is any page of at   *)
(* most MaxCatalog products; the fields of a product that no filter reads  *)
(* (price, images, url) are left out.                                      *)
(***************************************************************************)
MaxCatalog == 8

OptionalText(given, text) == [given |-> given, text |-> text]

NoAvailableDisplay == "I couldn't find any available firearms matching that search. Would you like me to show all firearms, including those currently rented out?"
NoMatchDisplay == "I couldn't find any firearms matching that search. Try different keywords or browse by category."

\* one product as the catalog holds it: odd ids are handguns, even ids are
\* rifles, and product 3 is rented out until 2026-02-03
CatalogItem(id) ==
    [id |-> id,
     name |-> IF id % 2 = 1 THEN "Glock" ELSE "AR-15",
     category |-> IF id % 2 = 1 THEN [slug |-> "handguns", name |-> "Handguns"]
                                ELSE [slug |-> "rifles", name |-> "Rifles"],
     stock_status |-> IF id = 3 THEN "outofstock" ELSE "instock",
     available |-> id # 3,
     next_available_date |-> IF id = 3 THEN [y |-> 2026, m |-> 2, d |-> 3] ELSE NoDate]

\* woocommerce.ts:139-158
transformWCProduct(wc) ==
    [wc EXCEPT !.available = (wc.stock_status = "instock"),
               !.next_available_date = NoDate]

\* String.prototype.toLowerCase, on the texts of the model
toLowerCase(text) ==
    CASE text = "Handguns" -> "handguns"
      [] text = "Rifles"   -> "rifles"
      [] OTHER -> text

\* String.prototype.includes, on the texts of the model
includes(text, part) == text = part \/ (part = "gun" /\ text = "handguns")

\* woocommerce.ts:213-222
MatchesCategory(p, category) ==
    \/ includes(toLowerCase(p.category.name), toLowerCase(category))
    \/ includes(toLowerCase(p.category.slug), toLowerCase(category))

MapProducts(products) == [i \in 1..Len(products) |-> transformWCProduct(products[i])]

\* woocommerce.ts:185-231.  answer is what the catalog service responds
getProducts(params, answer, mode) ==
    IF mode = "custom-api" THEN answer
    ELSE IF mode = "woocommerce"
      THEN IF answer.threw THEN answer
           ELSE IF Truthy(params.category.given, params.category.text)
             THEN [answer EXCEPT !.products =
                     SelectSeq(MapProducts(answer.products),
                               LAMBDA p : MatchesCategory(p, params.category.text))]
           ELSE [answer EXCEPT !.products = MapProducts(answer.products)]
    ELSE [threw |-> TRUE, code |-> "config_error", products |-> <<>>]

\* tools.ts:200-210: one entry of data.products
ProductEntry(p) ==
    [id |-> p.id, name |-> p.name, available |-> p.available,
     next_available_date |-> p.next_available_date,
     categories |-> <<p.category.name>>]

\* tools.ts:338-352, by the values it interpolates
formatProductResults(products) ==
    <<"Found", Len(products),
      [i \in 1..Len(products) |->
         <<products[i].name,
           IF products[i].available THEN "Available now"
           ELSE IF products[i].next_available_date # NoDate
             THEN "Next available"
           ELSE "Check back soon">>]>>

\* the empty search reported as a failure
EmptySearchResult_AsFailure(availableOnly) ==
    [success |-> FALSE, error |-> NoMatchDisplay, data |-> [products |-> <<>>],
     display |-> ""]

\* tools.ts:189-197
EmptySearchResult(availableOnly) ==
    [success |-> TRUE, data |-> [products |-> <<>>],
     display |-> IF availableOnly THEN NoAvailableDisplay ELSE NoMatchDisplay]

\* tools.ts:199-216
SearchResult(products, availableOnly) ==
    IF Len(products) = 0 THEN EmptySearchResult(availableOnly)
    ELSE [success |-> TRUE,
          data |-> [products |-> [i \in 1..Len(products) |-> ProductEntry(products[i])],
                    total |-> Len(products)],
          display |-> formatProductResults(products)]

\* the result list not cut
slice_Everything(products, first, last) == products

\* Array.prototype.slice(first, last) with 0 <= first <= last
slice(products, first, last) ==
    SubSeq(products, first + 1, IF last < Len(products) THEN last ELSE Len(products))

\* tools.ts:181-184
FilterAvailable(products, availableOnly) ==
    IF availableOnly THEN SelectSeq(products, LAMBDA p : p.available) ELSE products

\* tools.ts:174-179
FilterCategory(products, query, category) ==
    IF Truthy(query.given, query.text) /\ Truthy(category.given, category.text)
      THEN SelectSeq(products, LAMBDA p : p.category.slug = category.text)
      ELSE products

\* tools.ts:164-173
FetchProducts(input, availableOnly, answer, mode) ==
    IF Truthy(input.query.given, input.query.text)
      THEN getProducts([search |-> input.query, category |-> OptionalText(FALSE, ""),
                        available_only |-> FALSE], answer, mode)
      ELSE getProducts([search |-> OptionalText(FALSE, ""), category |-> input.category,
                        available_only |-> availableOnly], answer, mode)

\* tools.ts:174-216, once the catalog has answered
SearchFetched(input, availableOnly, fetched) ==
    IF fetched.threw THEN ThrowsWoo(fetched.code)
    ELSE Returns(SearchResult(
           slice(FilterAvailable(FilterCategory(fetched.products, input.query,
                                                input.category),
                                 availableOnly), 0, 6),
           availableOnly))

\* tools.ts:159: input.available_only !== false
AvailableOnly(input) == input.available_only # "false"

\* tools.ts:154-217
handleProductSearch(input, answer, mode) ==
    SearchFetched(input, AvailableOnly(input),
                  FetchProducts(input, AvailableOnly(input), answer, mode))

Catalog == [i \in 1..MaxCatalog |-> CatalogItem(i)]
CatalogPages ==
    { <<>> } \cup { SubSeq(Catalog, i, j) : i \in 1..MaxCatalog, j \in 1..MaxCatalog }
CatalogAnswers ==
    { [threw |-> TRUE, code |-> "api_error", products |-> <<>>] }
      \cup { [threw |-> FALSE, code |-> "", products |-> ps] : ps \in CatalogPages }
SearchInputs ==
    [query : { OptionalText(FALSE, ""), OptionalText(TRUE, ""), OptionalText(TRUE, "glock") },
     category : { OptionalText(FALSE, ""), OptionalText(TRUE, "handguns"),
                  OptionalText(TRUE, "Handguns"), OptionalText(TRUE, "gun") },
     available_only : {"omitted", "true", "false"}]

SearchInit ==
    /\ apiKey = TRUE
    /\ client = FALSE
    /\ requests = 0
    /\ LoopIdle
    /\ DateIdle
    /\ rateAttempts = 0

\* the model calls search_products and handleToolCall settles
SearchProducts ==
    /\ ~toolOutcome.ran
    /\ \E input \in SearchInputs, answer \in CatalogAnswers, mode \in Modes :
         toolOutcome' =
           [ran |-> TRUE, input |-> input, answer |-> answer, mode |-> mode,
            outcome |-> handleProductSearch(input, answer, mode),
            result |-> handleToolCall("search_products",
                                      handleProductSearch(input, answer, mode)).result]
    /\ UNCHANGED <<loopVars, keyVars, today, clockYear, dateInput, dateResult,
                   pluginVars>>

SearchNext == SearchProducts

SearchSpec == SearchInit /\ [][SearchNext]_vars

\* the handler returned a result of its own
SearchReturned == toolOutcome.ran /\ toolOutcome.outcome.kind = "returns"

\* C24: a search whose filtered list is empty returns success with
\* data.products = [], a display and no error field, and the display invites
\* showing rented-out firearms when available_only is true or omitted
C24_EmptySearch ==
    (SearchReturned /\ toolOutcome.result.data.products = <<>>)
    => /\ toolOutcome.result.success
       /\ "error" \notin DOMAIN toolOutcome.result
       /\ toolOutcome.result.display \in {NoAvailableDisplay, NoMatchDisplay}
       /\ toolOutcome.input.available_only # "false"
            => toolOutcome.result.display = NoAvailableDisplay

\* the catalog had products, all of them rented out, and available_only was
\* omitted
C24_Witness ==
    /\ SearchReturned
    /\ toolOutcome.input.available_only = "omitted"
    /\ toolOutcome.answer.products = <<CatalogItem(3)>>
    /\ toolOutcome.mode = "custom-api"
    /\ toolOutcome.result.data.products = <<>>
    /\ toolOutcome.result.display = NoAvailableDisplay

\* C25 as stated: at most 6 entries, data.total equal to their number, and
\* only available products unless available_only is false
C25_SearchResultInvariant ==
    SearchReturned =>
      LET data == toolOutcome.result.data
      IN  /\ Len(data.products) <= 6
          /\ "total" \in DOMAIN data /\ data.total = Len(data.products)
          /\ toolOutcome.input.available_only # "false"
               => \A i \in 1..Len(data.products) : data.products[i].available

\* C25: at most 6 entries; a result with entries has data.total equal to
\* their number and a result without entries has no data.total; unless
\* available_only is false every entry is available, with or without a query
C25_SearchResultInvariantNonEmpty ==
    SearchReturned =>
      LET data == toolOutcome.result.data
      IN  /\ Len(data.products) <= 6
          /\ Len(data.products) > 0
               => ("total" \in DOMAIN data /\ data.total = Len(data.products))
          /\ Len(data.products) = 0 => "total" \notin DOMAIN data
          /\ toolOutcome.input.available_only # "false"
               => \A i \in 1..Len(data.products) : data.products[i].available

\* the catalog answered with 8 products for a query, 7 of them available
C25_Witness ==
    /\ SearchReturned
    /\ toolOutcome.input.query.text = "glock"
    /\ toolOutcome.input.available_only = "true"
    /\ Len(toolOutcome.answer.products) = MaxCatalog
    /\ Len(toolOutcome.result.data.products) = 6
    /\ toolOutcome.result.data.total = 6

(***************************************************************************)
(* The history of the orchestration loop (part_003:97-191).                *)
(***************************************************************************)

\* C26: every completion call issued after a tool was executed, the first
\* call of a later iteration included, is given the caller's messages
\* followed by every tool-use and tool-result turn appended so far
C26_NextCallGetsExtendedHistory ==
    [][(Len(calls') = Len(calls) + 1 /\ toolExecs # <<>>)
         => Last(calls').messages = conversationMessages']_vars

\* the turns the loop appended to the caller's messages
AppendedTurns ==
    SubSeq(conversationMessages, Len(initialMessages) + 1, Len(conversationMessages))

\* the tool executions that have settled and whose turns the loop has pushed
SettledExecs ==
    SubSeq(toolExecs, 1, Len(toolExecs) - (IF pc = "tool" THEN 1 ELSE 0))

\* the appended turns are pairs: an assistant tool_use turn and directly
\* after it the user tool_result turn with the same id; no id is in two pairs
PairedTurns ==
    /\ Len(AppendedTurns) % 2 = 0
    /\ \A k \in 1..(Len(AppendedTurns) \div 2) :
         /\ AppendedTurns[2 * k - 1].type = "tool_use"
         /\ AppendedTurns[2 * k - 1].role = "assistant"
         /\ AppendedTurns[2 * k].type = "tool_result"
         /\ AppendedTurns[2 * k].role = "user"
         /\ AppendedTurns[2 * k].id = AppendedTurns[2 * k - 1].id
    /\ \A i, j \in DOMAIN AppendedTurns :
         (i # j /\ AppendedTurns[i].type = AppendedTurns[j].type)
           => AppendedTurns[i].id # AppendedTurns[j].id

\* each settled execution has its pair, in order
ExecutionPairs ==
    /\ Len(AppendedTurns) = 2 * Len(SettledExecs)
    /\ \A k \in DOMAIN SettledExecs :
         AppendedTurns[2 * k - 1].id = SettledExecs[k].id

StartsOfTurn(k) ==
    { j \in Positions(events, "tool_start") : TurnOf(events[j].id) = k }

\* C29: a text event is emitted only while its turn streams and before any
\* tool_start of that turn; a tool execution starts only for a tool use of
\* a turn whose provider stream has ended, never while a turn streams
C29_ToolsAfterStreamEnd ==
    [][/\ (Len(events') = Len(events) + 1 /\ Last(events').type = "text")
            => /\ pc = "stream"
               /\ Last(calls).outcome = "pending"
               /\ StartsOfTurn(Len(calls)) = {}
       /\ Len(toolExecs') = Len(toolExecs) + 1
            => /\ pc' = "tool"
               /\ \E k \in DOMAIN calls' :
                    /\ calls'[k].outcome = "returned"
                    /\ \E i \in DOMAIN calls'[k].toolUses :
                         calls'[k].toolUses[i] = Last(toolExecs')
       /\ (pc' = "stream" /\ Last(calls').outcome = "pending")
            => Len(toolExecs') = Len(toolExecs)]_vars

\* a turn streamed text, ended with a tool use, and the tool is executing
C29_Witness ==
    /\ pc = "tool"
    /\ \E i \in Positions(events, "text"), j \in Positions(events, "tool_start") :
         /\ i < j
         /\ TurnOf(events[j].id) = 1
         /\ \A k \in Positions(events, "tool_start") : k >= j
    /\ Last(toolExecs) = Last(calls).toolUses[1]

\* the requests the handler sent to the availability service
AvailabilityRequests ==
    { toolOutcome.calls[j] :
        j \in { i \in DOMAIN toolOutcome.calls :
                  /\ toolOutcome.calls[i].service = "checkAvailability"
                  /\ toolOutcome.calls[i].sent } }

\* C28: every request to the availability service carries a range with
\* start_date <= end_date and start_date on or after today, whether the
\* dates came from the 'dates' text or from start_date and end_date
C28_ServiceGetsValidRange ==
    toolOutcome.ran =>
      \A c \in AvailabilityRequests :
        /\ DateLeq(c.start_date, c.end_date)
        /\ DateLeq(formatDate(today), c.start_date)

\* the handler returned a success and the service had an answer to give
AvailabilityReported ==
    /\ toolOutcome.ran
    /\ ~toolOutcome.threw
    /\ toolOutcome.result.success
    /\ ~toolOutcome.backend.availability.threw

\* C30: in every backend configuration a successful result carries the
\* available flag and the next available date of the service's answer, and
\* when the answer is unavailable with a next available date the display
\* names the product and that date
C30_ReportsServiceAnswer ==
    AvailabilityReported =>
      LET answer == toolOutcome.backend.availability.response
          data == toolOutcome.result.data
          display == toolOutcome.result.display
      IN  /\ data.available = answer.available
          /\ data.next_available_date = answer.next_available_date
          /\ (~answer.available /\ HasText(answer.next_available_date))
               => /\ display[2] # "This firearm"
                  /\ display[2] = data.product_name
                  /\ Len(display) = 5
                  /\ display[5] = answer.next_available_date

====
